---- MODULE Spec2Model ----
(***************************************************************************)
(* Model of mlflowstone/run.py: the Run wrapper around a tracking client.  *)
(*                                                                         *)
(* The tracking service is modelled by the runs it holds (the tags each    *)
(* run was created with and how often it was terminated); the client calls *)
(* one top-level call makes are recorded in `calls`.  The interpreter is   *)
(* single threaded: a top-level call starts when pc = "idle" and runs      *)
(* client call by client call until it returns or raises.  Every client    *)
(* call (and flavor.save_model) either succeeds or raises one of Errors.   *)
(*                                                                         *)
(* Strings the code inspects or builds are sequences: a run name is a      *)
(* sequence of characters, a cv_results_ key is the sequence of its        *)
(* '_'-separated words.                                                    *)
(***************************************************************************)
EXTENDS Integers, Sequences, FiniteSets, TLC

VARIABLES
    runs,            \* tracking service: run id n is runs[n] = [tags, ended]
    handles,         \* the Run objects made by Run.create: handles[n] = [id, parent]
    createDefaults,  \* the dict object that is the default of Run.create's `tags`
    startDefaults,   \* the dict object that is the default of Run.start_run's `tags`
    stagingDirs,     \* number of directories made by _temp_file that still exist
    modelTmp,        \* TRUE while log_model's TempDir exists
    pc,              \* position of the running top-level call, "idle" between calls
    fr,              \* locals of the running top-level call
    calls,           \* client calls made by the current / most recent top-level call
    outcome,         \* how the most recent top-level call ended
    ops              \* number of top-level calls started

vars == <<runs, handles, createDefaults, startDefaults, stagingDirs, modelTmp,
          pc, fr, calls, outcome, ops>>

---------------------------------------------------------------------------
(* Bounds *)

MaxRuns == 3
MaxOps == 3
MaxLogOps == 2
MaxCandidates == 2

---------------------------------------------------------------------------
(* Constants of the program *)

MLFLOW_PARENT_RUN_ID == "mlflow.parentRunId"
MLFLOW_RUN_NAME == "mlflow.runName"
NoParentTag == -1

MlflowException == "MlflowException"
OtherError == "OtherError"
KeyError == "KeyError"
Errors == {MlflowException, OtherError}
Results == {"ok"} \cup Errors

---------------------------------------------------------------------------
(* Python values *)

\* dict: a function from the keys present to their values
EmptyDict == [k \in {} |-> {}]

DictSet(d, k, v) == [x \in DOMAIN d \cup {k} |-> IF x = k THEN v ELSE d[x]]

\* str(i) for i >= 0, as a sequence of characters
Digits == <<"0", "1", "2", "3", "4", "5", "6", "7", "8", "9">>

RECURSIVE Str(_)
Str(i) == IF i < 10 THEN <<Digits[i + 1]>>
          ELSE Str(i \div 10) \o <<Digits[(i % 10) + 1]>>

\* sub in s
Contains(s, sub) ==
    \E p \in 1..(Len(s) - Len(sub) + 1) : SubSeq(s, p, p + Len(sub) - 1) = sub

\* s.replace(old, new), Len(old) > 0
RECURSIVE Replace(_, _, _)
Replace(s, old, new) ==
    IF Len(s) < Len(old) THEN s
    ELSE IF SubSeq(s, 1, Len(old)) = old
         THEN new \o Replace(SubSeq(s, Len(old) + 1, Len(s)), old, new)
         ELSE <<Head(s)>> \o Replace(Tail(s), old, new)

\* key in a dict given as its sequence of keys
HasKey(keys, k) == \E p \in 1..Len(keys) : keys[p] = k

\* an optional Run: <<>> is None, <<id>> is the run with that id
None == <<>>
Some(id) == <<id>>

---------------------------------------------------------------------------
(* Records of the model *)

\* a value handed to the client: where it was read from
NoVal == [src |-> "", key |-> <<>>, idx |-> 0]
CvResult(key, run_index) == [src |-> "cv_results_", key |-> key, idx |-> run_index]

\* one call of the client (or of the flavor), with its result
ClientCall(fn, run, key, val, tags, r) ==
    [fn |-> fn, run |-> run, key |-> key, val |-> val, tags |-> tags, res |-> r]

Returned(value) == [status |-> "returned", err |-> "", value |-> value]
Raised(err) == [status |-> "raised", err |-> err, value |-> <<>>]
Running == [status |-> "running", err |-> "", value |-> <<>>]

\* a GridSearchCV result: n candidates, best_index_, param_grid keys, cv_results_ keys
GridSearch(n, best, grid, keys) ==
    [n |-> n, best_index_ |-> best, param_grid |-> grid, cv_results_ |-> keys]

NoGrid == GridSearch(0, 0, <<>>, <<>>)

\* locals of a top-level call: the method, its arguments and its loop positions
NoFrame == [op |-> "", self |-> 0, name |-> <<>>, parent |-> None, tagsArg |-> None,
            g |-> NoGrid, tags |-> <<>>, log_only_best |-> FALSE,
            i |-> 0, child |-> 0, run_index |-> 0, j |-> 0, warned |-> FALSE]

RunIds == 1..Len(runs)

---------------------------------------------------------------------------
(* Run.create, Run.start_run, Run.end, Run.childs *)

\* The tags Run.create hands to client.create_run: `tags` updated in place
create_tags_keep(name, parent, tags) ==
    LET t1 == IF MLFLOW_PARENT_RUN_ID \in DOMAIN tags THEN tags
              ELSE IF parent # None
                   THEN DictSet(tags, MLFLOW_PARENT_RUN_ID, parent[1])
                   ELSE DictSet(tags, MLFLOW_PARENT_RUN_ID, NoParentTag)
    IN IF Len(name) > 0 THEN DictSet(t1, MLFLOW_RUN_NAME, name) ELSE t1

create_tags(name, parent, tags) ==
    LET t1 == IF parent # None
              THEN DictSet(tags, MLFLOW_PARENT_RUN_ID, parent[1])
              ELSE DictSet(tags, MLFLOW_PARENT_RUN_ID, NoParentTag)
    IN IF Len(name) > 0 THEN DictSet(t1, MLFLOW_RUN_NAME, name) ELSE t1

\* client.create_run on the service: a new run holding a copy of the tags
service_create_run(tags, r) ==
    IF r = "ok" THEN Append(runs, [tags |-> tags, ended |-> 0]) ELSE runs

\* Run(run, experiment, parent=parent) on the run client.create_run returned
new_handle(parent, r) ==
    IF r = "ok" THEN Append(handles, [id |-> Len(runs) + 1, parent |-> parent])
    ELSE handles

\* Run.create(name, experiment, parent, tags); tagsArg = None when `tags` is omitted
create(name, parent, tagsArg, r) ==
    /\ pc = "idle"
    /\ Len(runs) < MaxRuns
    /\ LET tags == create_tags(name, parent,
                               IF tagsArg = None THEN createDefaults ELSE tagsArg[1])
           id == Len(runs) + 1
       IN /\ createDefaults' = IF tagsArg = None THEN tags ELSE createDefaults
          /\ runs' = service_create_run(tags, r)
          /\ handles' = new_handle(parent, r)
          /\ calls' = <<ClientCall("create_run", IF r = "ok" THEN id ELSE 0,
                                   <<>>, NoVal, tags, r)>>
          /\ outcome' = IF r = "ok" THEN Returned(<<id>>) ELSE Raised(r)
    /\ fr' = [NoFrame EXCEPT !.op = "create", !.name = name, !.parent = parent,
                             !.tagsArg = tagsArg]
    /\ ops' = ops + 1
    /\ UNCHANGED <<startDefaults, stagingDirs, modelTmp, pc>>

\* self.start_run(name, tags): Run.create with self as the parent
start_run(self, name, tagsArg, r) ==
    /\ pc = "idle"
    /\ Len(runs) < MaxRuns
    /\ self \in RunIds
    /\ LET tags == create_tags(name, Some(self),
                               IF tagsArg = None THEN startDefaults ELSE tagsArg[1])
           id == Len(runs) + 1
       IN /\ startDefaults' = IF tagsArg = None THEN tags ELSE startDefaults
          /\ runs' = service_create_run(tags, r)
          /\ handles' = new_handle(Some(self), r)
          /\ calls' = <<ClientCall("create_run", IF r = "ok" THEN id ELSE 0,
                                   <<>>, NoVal, tags, r)>>
          /\ outcome' = IF r = "ok" THEN Returned(<<id>>) ELSE Raised(r)
    /\ fr' = [NoFrame EXCEPT !.op = "start_run", !.self = self, !.name = name,
                             !.parent = Some(self), !.tagsArg = tagsArg]
    /\ ops' = ops + 1
    /\ UNCHANGED <<createDefaults, stagingDirs, modelTmp, pc>>

\* client.set_terminated on the service
service_set_terminated(id, r) ==
    IF r = "ok" THEN [runs EXCEPT ![id].ended = @ + 1] ELSE runs

\* self.end()
end(self, r) ==
    /\ pc = "idle"
    /\ self \in RunIds
    /\ runs' = service_set_terminated(self, r)
    /\ calls' = <<ClientCall("set_terminated", self, <<>>, NoVal, EmptyDict, r)>>
    /\ outcome' = IF r = "ok" THEN Returned(<<>>) ELSE Raised(r)
    /\ fr' = [NoFrame EXCEPT !.op = "end", !.self = self]
    /\ ops' = ops + 1
    /\ UNCHANGED <<handles, createDefaults, startDefaults, stagingDirs, modelTmp, pc>>

\* client.search_runs with the filter tags.mlflow.parentRunId = '<id>'
search_runs_any_parent(id) ==
    SelectSeq([n \in 1..Len(runs) |-> n],
              LAMBDA n : /\ MLFLOW_PARENT_RUN_ID \in DOMAIN runs[n].tags
                         /\ runs[n].tags[MLFLOW_PARENT_RUN_ID] # NoParentTag)

search_runs(id) ==
    SelectSeq([n \in 1..Len(runs) |-> n],
              LAMBDA n : /\ MLFLOW_PARENT_RUN_ID \in DOMAIN runs[n].tags
                         /\ runs[n].tags[MLFLOW_PARENT_RUN_ID] = id)

\* self.childs()
childs(self, r) ==
    /\ pc = "idle"
    /\ self \in RunIds
    /\ calls' = <<ClientCall("search_runs", self, <<>>, NoVal, EmptyDict, r)>>
    /\ outcome' = IF r = "ok" THEN Returned(search_runs(self)) ELSE Raised(r)
    /\ fr' = [NoFrame EXCEPT !.op = "childs", !.self = self]
    /\ ops' = ops + 1
    /\ UNCHANGED <<runs, handles, createDefaults, startDefaults, stagingDirs, modelTmp,
                   pc>>

---------------------------------------------------------------------------
(* How a running top-level call ends *)

Persistent == <<runs, handles, createDefaults, startDefaults, stagingDirs>>

\* an exception leaves the call: log_model's TempDir is removed on the way out
Raise(err) ==
    /\ pc' = "idle"
    /\ outcome' = Raised(err)
    /\ modelTmp' = FALSE

\* return self
ReturnSelf ==
    /\ pc' = "idle"
    /\ outcome' = Returned(<<fr.self>>)
    /\ UNCHANGED modelTmp

\* the client (or flavor) call c is made with result r: on success the call
\* goes on at `next`, on failure the error propagates
Step(c, r, next) ==
    /\ calls' = Append(calls, c)
    /\ IF r = "ok" THEN pc' = next /\ UNCHANGED <<outcome, modelTmp>>
       ELSE Raise(r)

---------------------------------------------------------------------------
(* Run.log_model *)

log_model(self) ==
    /\ pc = "idle"
    /\ self \in RunIds
    /\ pc' = "lm_save"
    /\ fr' = [NoFrame EXCEPT !.op = "log_model", !.self = self]
    /\ calls' = <<>>
    /\ outcome' = Running
    /\ modelTmp' = TRUE
    /\ ops' = ops + 1
    /\ UNCHANGED Persistent

\* flavor.save_model(model, path=local_path, mlflow_model=mlflow_model)
lm_save(r) ==
    /\ pc = "lm_save"
    /\ Step(ClientCall("save_model", fr.self, <<>>, NoVal, EmptyDict, r), r, "lm_artifacts")
    /\ UNCHANGED <<Persistent, fr, ops>>

\* self.client.log_artifacts(self.id, local_path)
lm_log_artifacts(r) ==
    /\ pc = "lm_artifacts"
    /\ Step(ClientCall("log_artifacts", fr.self, <<>>, NoVal, EmptyDict, r), r, "lm_record")
    /\ UNCHANGED <<Persistent, fr, ops>>

\* the errors the except clause around _record_logged_model catches
catches_none(err) == FALSE

catches_any(err) == TRUE

catches(err) == err = MlflowException

\* self.client._record_logged_model(self.id, mlflow_model) in its try block
lm_record(r) ==
    /\ pc = "lm_record"
    /\ calls' = Append(calls, ClientCall("_record_logged_model", fr.self, <<>>, NoVal,
                                        EmptyDict, r))
    /\ IF r = "ok"
       THEN /\ pc' = "lm_exit"
            /\ UNCHANGED <<fr, outcome, modelTmp>>
       ELSE IF catches(r)
            THEN /\ pc' = "lm_exit"
                 /\ fr' = [fr EXCEPT !.warned = TRUE]
                 /\ UNCHANGED <<outcome, modelTmp>>
            ELSE /\ Raise(r)
                 /\ UNCHANGED fr
    /\ UNCHANGED <<Persistent, ops>>

\* the with block is left and log_model returns self
lm_exit ==
    /\ pc = "lm_exit"
    /\ IF fr.op = "log_model"
       THEN /\ pc' = "idle"
            /\ outcome' = Returned(<<fr.self>>)
       ELSE /\ pc' = "lp_stage"
            /\ UNCHANGED outcome
    /\ modelTmp' = FALSE
    /\ UNCHANGED <<Persistent, fr, calls, ops>>

---------------------------------------------------------------------------
(* Run._temp_file, Run.log_pickle, Run.log_pandas *)

log_pickle(self) ==
    /\ pc = "idle"
    /\ self \in RunIds
    /\ pc' = "lp_stage"
    /\ fr' = [NoFrame EXCEPT !.op = "log_pickle", !.self = self]
    /\ calls' = <<>>
    /\ outcome' = Running
    /\ ops' = ops + 1
    /\ UNCHANGED <<Persistent, modelTmp>>

log_pandas(self) ==
    /\ pc = "idle"
    /\ self \in RunIds
    /\ pc' = "lp_stage"
    /\ fr' = [NoFrame EXCEPT !.op = "log_pandas", !.self = self]
    /\ calls' = <<>>
    /\ outcome' = Running
    /\ ops' = ops + 1
    /\ UNCHANGED <<Persistent, modelTmp>>

\* the extension _temp_file is called with
extension == IF fr.op = "log_pickle" THEN "pkl" ELSE "csv"

\* _temp_file makes a new directory and the data is written to a file in it.
\* (The TemporaryDirectory object whose name is taken is dropped at once, which
\* under CPython's reference counting removes its directory before os.mkdir
\* makes it again; nothing owns the directory os.mkdir made.)
lp_stage ==
    /\ pc = "lp_stage"
    /\ stagingDirs' = stagingDirs + 1
    /\ pc' = "lp_upload"
    /\ UNCHANGED <<runs, handles, createDefaults, startDefaults, modelTmp, fr, calls,
                   outcome, ops>>

\* the staging directories left once client.log_artifact has returned or raised
staging_after_upload(n) == n

\* self.client.log_artifact(self.id, file_path); return self
lp_upload(r) ==
    /\ pc = "lp_upload"
    /\ calls' = Append(calls, ClientCall("log_artifact", fr.self, <<extension>>, NoVal,
                                        EmptyDict, r))
    /\ stagingDirs' = staging_after_upload(stagingDirs)
    /\ IF r # "ok" THEN Raise(r) /\ UNCHANGED fr
       ELSE IF fr.op = "log_cross_validation"
            THEN /\ pc' = "cv_loop"
                 /\ fr' = [fr EXCEPT !.i = 1]
                 /\ UNCHANGED <<outcome, modelTmp>>
            ELSE ReturnSelf /\ UNCHANGED fr
    /\ UNCHANGED <<runs, handles, createDefaults, startDefaults, ops>>

---------------------------------------------------------------------------
(* Run.log_cv_run *)

log_cv_run(self, g, run_index, tags) ==
    /\ pc = "idle"
    /\ self \in RunIds
    /\ pc' = "cvr_folds"
    /\ fr' = [NoFrame EXCEPT !.op = "log_cv_run", !.self = self, !.g = g, !.tags = tags,
                             !.child = self, !.run_index = run_index]
    /\ calls' = <<>>
    /\ outcome' = Running
    /\ ops' = ops + 1
    /\ UNCHANGED <<Persistent, modelTmp>>

\* self.client.log_param(self.id, "folds", gridsearch.cv)
cvr_folds(r) ==
    /\ pc = "cvr_folds"
    /\ Step(ClientCall("log_param", fr.child, <<"folds">>,
                       [src |-> "cv", key |-> <<>>, idx |-> 0], EmptyDict, r),
            r, "cvr_param")
    /\ fr' = [fr EXCEPT !.j = 1]
    /\ UNCHANGED <<Persistent, ops>>

\* for param in params: log_param(param, cv_results["param_%s" % param][run_index])
cvr_param(r) ==
    /\ pc = "cvr_param"
    /\ IF fr.j > Len(fr.g.param_grid)
       THEN /\ pc' = "cvr_mean"
            /\ fr' = [fr EXCEPT !.j = 1]
            /\ UNCHANGED <<calls, outcome, modelTmp>>
       ELSE LET param == fr.g.param_grid[fr.j]
                key == <<"param">> \o param
            IN IF ~HasKey(fr.g.cv_results_, key)
               THEN Raise(KeyError) /\ UNCHANGED <<calls, fr>>
               ELSE /\ Step(ClientCall("log_param", fr.child, param,
                                       CvResult(key, fr.run_index), EmptyDict, r),
                            r, "cvr_param")
                    /\ fr' = [fr EXCEPT !.j = @ + 1]
    /\ UNCHANGED <<Persistent, ops>>

\* [score for score in cv_results if "mean_test" in score]
score_names(g) == SelectSeq(g.cv_results_, LAMBDA k : Contains(k, <<"mean", "test">>))

\* score_name.replace("mean", "std")
std_name(score_name) == Replace(score_name, <<"mean">>, <<"std">>)

\* log_metric(score_name, cv_results[score_name][run_index])
cvr_mean(r) ==
    /\ pc = "cvr_mean"
    /\ IF fr.j > Len(score_names(fr.g))
       THEN /\ pc' = "cvr_tag"
            /\ fr' = [fr EXCEPT !.j = 1]
            /\ UNCHANGED <<calls, outcome, modelTmp>>
       ELSE LET score_name == score_names(fr.g)[fr.j]
            IN /\ Step(ClientCall("log_metric", fr.child, score_name,
                                  CvResult(score_name, fr.run_index), EmptyDict, r),
                       r, "cvr_std")
               /\ UNCHANGED fr
    /\ UNCHANGED <<Persistent, ops>>

\* log_metric(score_name.replace("mean", "std"),
\*            cv_results[score_name.replace("mean", "std")][run_index])
cvr_std(r) ==
    /\ pc = "cvr_std"
    /\ LET key == std_name(score_names(fr.g)[fr.j])
       IN IF ~HasKey(fr.g.cv_results_, key)
          THEN Raise(KeyError) /\ UNCHANGED <<calls, fr>>
          ELSE /\ Step(ClientCall("log_metric", fr.child, key,
                                  CvResult(key, fr.run_index), EmptyDict, r),
                       r, "cvr_mean")
               /\ fr' = [fr EXCEPT !.j = @ + 1]
    /\ UNCHANGED <<Persistent, ops>>

\* where the caller goes on once log_cv_run has returned inside
\* log_cross_validation: the chained .end()
after_log_cv_run_no_end == "cv_next"

after_log_cv_run == "cv_end"

\* for k, v in tags.items(): set_tag(k, v); return self
cvr_tag(r) ==
    /\ pc = "cvr_tag"
    /\ IF fr.j > Len(fr.tags)
       THEN /\ IF fr.op = "log_cv_run"
               THEN /\ pc' = "idle"
                    /\ outcome' = Returned(<<fr.child>>)
               ELSE /\ pc' = after_log_cv_run
                    /\ UNCHANGED outcome
            /\ UNCHANGED <<calls, fr, modelTmp>>
       ELSE /\ Step(ClientCall("set_tag", fr.child, <<fr.tags[fr.j][1]>>,
                               [src |-> "tags", key |-> <<fr.tags[fr.j][2]>>, idx |-> 0],
                               EmptyDict, r),
                    r, "cvr_tag")
            /\ fr' = [fr EXCEPT !.j = @ + 1]
    /\ UNCHANGED <<Persistent, ops>>

---------------------------------------------------------------------------
(* Run.log_cross_validation *)

\* the candidate indices a call logs, in order
candidates(g, log_only_best) ==
    IF log_only_best THEN <<g.best_index_>>
    ELSE [p \in 1..g.n |-> p - 1]

\* the name of the child run started for candidate i
child_name_iterated(best, i) == Str(i)

child_name(best, i) == Str(best)

log_cross_validation(self, g, tags, log_only_best) ==
    /\ pc = "idle"
    /\ self \in RunIds
    /\ Len(runs) + Len(candidates(g, log_only_best)) <= MaxRuns
    /\ pc' = "lm_save"
    /\ fr' = [NoFrame EXCEPT !.op = "log_cross_validation", !.self = self, !.g = g,
                             !.tags = tags, !.log_only_best = log_only_best]
    /\ calls' = <<>>
    /\ outcome' = Running
    /\ modelTmp' = TRUE
    /\ ops' = ops + 1
    /\ UNCHANGED Persistent

\* the loop over the candidates; return self after the last one
cv_loop ==
    /\ pc = "cv_loop"
    /\ IF fr.i <= Len(candidates(fr.g, fr.log_only_best))
       THEN pc' = "cv_start" /\ UNCHANGED <<outcome, modelTmp>>
       ELSE ReturnSelf
    /\ UNCHANGED <<Persistent, fr, calls, ops>>

\* self.start_run(str(best)): Run.create with start_run's default tags
cv_start(r) ==
    /\ pc = "cv_start"
    /\ LET i == candidates(fr.g, fr.log_only_best)[fr.i]
           tags == create_tags(child_name(fr.g.best_index_, i), Some(fr.self),
                               startDefaults)
           id == Len(runs) + 1
       IN /\ startDefaults' = tags
          /\ runs' = service_create_run(tags, r)
          /\ handles' = new_handle(Some(fr.self), r)
          /\ Step(ClientCall("create_run", IF r = "ok" THEN id ELSE 0, <<>>, NoVal,
                             tags, r),
                  r, "cvr_folds")
          /\ fr' = IF r = "ok" THEN [fr EXCEPT !.child = id, !.run_index = i] ELSE fr
    /\ UNCHANGED <<createDefaults, stagingDirs, ops>>

\* .end() on the child: client.set_terminated(child.id)
cv_end(r) ==
    /\ pc = "cv_end"
    /\ runs' = service_set_terminated(fr.child, r)
    /\ Step(ClientCall("set_terminated", fr.child, <<>>, NoVal, EmptyDict, r), r, "cv_next")
    /\ UNCHANGED <<handles, createDefaults, startDefaults, stagingDirs, fr, ops>>

\* the next iteration of the loop
cv_next ==
    /\ pc = "cv_next"
    /\ pc' = "cv_loop"
    /\ fr' = [fr EXCEPT !.i = @ + 1]
    /\ UNCHANGED <<Persistent, modelTmp, calls, outcome, ops>>

---------------------------------------------------------------------------
(* Inputs *)

Names == {<<>>, <<"a">>}

\* tags arguments of create / start_run: omitted, an empty dict, or a dict that
\* already holds a parent reference (as a dict reused from an earlier call does)
TagsArgs == {None, <<EmptyDict>>, <<DictSet(EmptyDict, MLFLOW_PARENT_RUN_ID, 1)>>}

\* cv_results_ of a search with one scorer (keys ..._score)
KeysScore == << <<"mean", "fit", "time">>, <<"param", "C">>, <<"params">>,
               <<"split0", "test", "score">>, <<"mean", "test", "score">>,
               <<"std", "test", "score">>, <<"rank", "test", "score">> >>

\* cv_results_ of a search with scoring = ["r2", "neg_mean_squared_error"]
KeysMulti == << <<"mean", "fit", "time">>, <<"param", "C">>, <<"params">>,
               <<"mean", "test", "r2">>, <<"std", "test", "r2">>,
               <<"rank", "test", "r2">>,
               <<"mean", "test", "neg", "mean", "squared", "error">>,
               <<"std", "test", "neg", "mean", "squared", "error">>,
               <<"rank", "test", "neg", "mean", "squared", "error">> >>

GridSearches ==
    {GridSearch(n, best, << <<"C">> >>, keys) :
        n \in {MaxCandidates}, best \in 0..(MaxCandidates - 1),
        keys \in {KeysScore, KeysMulti}}

\* tags arguments of log_cv_run / log_cross_validation, as their items in order
CvTags == {<<>>, << <<"features", "f">>, <<"dataset", "d">> >>}

---------------------------------------------------------------------------
(* Specification of run creation and lookup *)

Init ==
    /\ runs = <<>>
    /\ handles = <<>>
    /\ createDefaults = EmptyDict
    /\ startDefaults = EmptyDict
    /\ stagingDirs = 0
    /\ modelTmp = FALSE
    /\ pc = "idle"
    /\ fr = NoFrame
    /\ calls = <<>>
    /\ outcome = Returned(<<>>)
    /\ ops = 0

NextRuns ==
    \/ \E name \in Names, p \in {None} \cup {Some(n) : n \in RunIds},
          t \in TagsArgs, r \in Results : ops < MaxOps /\ create(name, p, t, r)
    \/ \E self \in RunIds, name \in Names, t \in TagsArgs, r \in Results :
          ops < MaxOps /\ start_run(self, name, t, r)
    \/ \E self \in RunIds, r \in Results : ops < MaxOps /\ childs(self, r)

SpecRuns == Init /\ [][NextRuns]_vars

---------------------------------------------------------------------------
(* Claims about run creation and lookup, checked under SpecRuns *)

IsCreate == fr.op \in {"create", "start_run"} /\ pc = "idle"

\* the tags the caller supplied: an empty mapping when the argument is omitted
SuppliedTags == IF fr.tagsArg = None THEN EmptyDict ELSE fr.tagsArg[1]

\* the tag set the last create / start_run call passed to client.create_run
PassedTags == calls[1].tags

\* C1: a non-empty name sets the run-name tag to that name; an empty name
\* sets no run-name tag, whatever earlier calls did (no tag of an earlier
\* call leaks into the tag set of a later call).
C1_RunNameTag ==
    IsCreate =>
        /\ Len(fr.name) > 0 => /\ MLFLOW_RUN_NAME \in DOMAIN PassedTags
                               /\ PassedTags[MLFLOW_RUN_NAME] = fr.name
        /\ Len(fr.name) = 0 => MLFLOW_RUN_NAME \notin DOMAIN PassedTags
        /\ DOMAIN PassedTags \subseteq
               DOMAIN SuppliedTags \cup {MLFLOW_PARENT_RUN_ID, MLFLOW_RUN_NAME}

\* C2: the tag set passed to client.create_run carries the parent-reference
\* tag: the parent's run id when a parent is given, the sentinel -1 when not,
\* whatever the supplied or reused mapping held; start_run's parent is self.
C2_ParentTag ==
    IsCreate =>
        /\ MLFLOW_PARENT_RUN_ID \in DOMAIN PassedTags
        /\ fr.parent # None => PassedTags[MLFLOW_PARENT_RUN_ID] = fr.parent[1]
        /\ fr.parent = None => PassedTags[MLFLOW_PARENT_RUN_ID] = NoParentTag
        /\ fr.op = "start_run" => fr.parent = Some(fr.self)

\* a create call whose mapping already held another parent reference
C2_Witness ==
    /\ IsCreate
    /\ outcome.status = "returned"
    /\ MLFLOW_PARENT_RUN_ID \in DOMAIN SuppliedTags
    /\ \/ fr.parent = None
       \/ fr.parent # None /\ SuppliedTags[MLFLOW_PARENT_RUN_ID] # fr.parent[1]

\* a start_run call that reused the default mapping of an earlier start_run
\* made on another run
C2_WitnessReuse ==
    /\ IsCreate /\ fr.op = "start_run" /\ fr.tagsArg = None
    /\ outcome.status = "returned"
    /\ \E n \in RunIds : /\ n < Len(runs)
                         /\ handles[n].parent # None
                         /\ handles[n].parent # fr.parent

SeqRange(s) == {s[p] : p \in 1..Len(s)}

\* C7: r.childs() holds exactly the runs created with parent r: every run
\* created with parent r, no run created with another parent, no run created
\* without a parent.
C7_Childs ==
    /\ \A r \in RunIds : \A n \in RunIds :
           n \in SeqRange(search_runs(r)) <=> handles[n].parent = Some(r)
    /\ (fr.op = "childs" /\ outcome.status = "returned") =>
           \A n \in RunIds :
               n \in SeqRange(outcome.value) <=> handles[n].parent = Some(fr.self)

\* childs() returned some runs and left out a run created without a parent
C7_Witness ==
    /\ fr.op = "childs" /\ outcome.status = "returned"
    /\ outcome.value # <<>>
    /\ \E n \in RunIds : n \notin SeqRange(outcome.value) /\ handles[n].parent = None

---------------------------------------------------------------------------
(* Specification of the logging calls on the runs of an experiment *)

\* a top-level call starts
StartLog ==
    \/ ops < MaxLogOps /\ create(<<>>, None, None, "ok")
    \/ \E self \in RunIds, r \in Results : ops < MaxLogOps /\ end(self, r)
    \/ \E self \in RunIds : ops < MaxLogOps /\ log_model(self)
    \/ \E self \in RunIds : ops < MaxLogOps /\ log_pickle(self)
    \/ \E self \in RunIds : ops < MaxLogOps /\ log_pandas(self)
    \/ \E self \in RunIds, g \in GridSearches, i \in 0..(MaxCandidates - 1),
          t \in CvTags : ops < MaxLogOps /\ log_cv_run(self, g, i, t)
    \/ \E self \in RunIds, g \in GridSearches, t \in CvTags, b \in BOOLEAN :
          ops < MaxLogOps /\ log_cross_validation(self, g, t, b)

\* the running call makes its next step
StepLog ==
    \/ \E r \in Results : lm_save(r)
    \/ \E r \in Results : lm_log_artifacts(r)
    \/ \E r \in Results : lm_record(r)
    \/ lm_exit
    \/ lp_stage
    \/ \E r \in Results : lp_upload(r)
    \/ \E r \in Results : cvr_folds(r)
    \/ \E r \in Results : cvr_param(r)
    \/ \E r \in Results : cvr_mean(r)
    \/ \E r \in Results : cvr_std(r)
    \/ \E r \in Results : cvr_tag(r)
    \/ cv_loop
    \/ \E r \in Results : cv_start(r)
    \/ \E r \in Results : cv_end(r)
    \/ cv_next

NextLog == StartLog \/ StepLog

SpecLog == Init /\ [][NextLog]_vars

---------------------------------------------------------------------------
(* Claims about the logging calls, checked under SpecLog *)

Positions == 1..Len(calls)

\* the positions in `calls` of the calls of fn
CallsOf(fn) == {p \in Positions : calls[p].fn = fn}

\* the calls made to the tracking client (flavor.save_model is not one)
ClientPositions == {p \in Positions : calls[p].fn # "save_model"}

\* no call of the client (nor of the flavor) has failed
NoFailure == \A p \in Positions : calls[p].res = "ok"

\* the top-level call op is over
Over(op) == fr.op = op /\ pc = "idle" /\ outcome.status # "running"

\* the create_run calls of the current call, in order
Created == SelectSeq(calls, LAMBDA c : c.fn = "create_run")

\* the successful set_terminated calls on run id before position q
EndsBefore(id, q) ==
    {t \in Positions : /\ t < q
                       /\ calls[t].fn = "set_terminated"
                       /\ calls[t].run = id
                       /\ calls[t].res = "ok"}

\* the calls that log a value taken from cv_results_
CvValueCalls(id) ==
    {p \in Positions : /\ calls[p].run = id
                       /\ calls[p].fn \in {"log_param", "log_metric"}
                       /\ calls[p].val.src = "cv_results_"}

\* C3: when no client call fails, log_cross_validation creates one child run
\* of the calling run per logged candidate (one with log_only_best, one per
\* entry of cv_results_['params'] without), candidate i's values go into the
\* i-th child, and every candidate is logged.
C3_ChildPerCandidate ==
    (Over("log_cross_validation") /\ NoFailure) =>
        LET cands == candidates(fr.g, fr.log_only_best)
        IN /\ Len(Created) = Len(cands)
           /\ \A p \in 1..Len(Created) :
                 /\ Created[p].tags[MLFLOW_PARENT_RUN_ID] = fr.self
                 /\ CvValueCalls(Created[p].run) # {}
                 /\ \A q \in CvValueCalls(Created[p].run) : calls[q].val.idx = cands[p]

\* C4: once a log_pickle / log_pandas call has returned or raised, no staging
\* directory or file it created still exists.
C4_NoStagingLeft == pc = "idle" => stagingDirs = 0

RecordCalls == CallsOf("_record_logged_model")

\* C5: log_model swallows only the legacy error of the metadata step: then
\* it warns and returns self; any other error of that step, and any error of
\* flavor.save_model or client.log_artifacts, propagates and ends the call
\* at the failing step.
C5_SwallowOnlyLegacy ==
    Over("log_model") =>
        /\ \A p \in Positions :
              (calls[p].fn \in {"save_model", "log_artifacts"} /\ calls[p].res # "ok") =>
                  /\ outcome = Raised(calls[p].res)
                  /\ p = Len(calls)
                  /\ RecordCalls = {}
        /\ \A p \in RecordCalls :
              /\ calls[p].res = MlflowException =>
                    /\ outcome = Returned(<<fr.self>>)
                    /\ fr.warned
                    /\ \E q \in CallsOf("log_artifacts") : q < p /\ calls[q].res = "ok"
              /\ calls[p].res \notin {"ok", MlflowException} =>
                    outcome = Raised(calls[p].res)
              /\ calls[p].res = "ok" => outcome = Returned(<<fr.self>>) /\ ~fr.warned
        /\ calls[1].fn = "save_model"
        /\ Len(calls) > 1 => calls[2].fn = "log_artifacts"
        /\ Len(calls) > 2 => calls[3].fn = "_record_logged_model"

\* log_model returned although recording the metadata raised the legacy error
C5_Witness ==
    /\ Over("log_model")
    /\ outcome.status = "returned"
    /\ \E p \in RecordCalls : calls[p].res = MlflowException

\* the std_test key that belongs to a mean_test key
MatchingStd(key) == <<"std">> \o Tail(key)

MeanTestKeys(g) == {k \in SeqRange(g.cv_results_) : Contains(k, <<"mean", "test">>)}

\* C6: log_cv_run for candidate i makes, all on its own run, one log_param
\* for 'folds', one log_param per param_grid key with cv_results_['param_<key>'][i],
\* two log_metric calls per cv_results_ key containing 'mean_test' (that value
\* and the matching 'std_test' value at i), one set_tag per entry of tags, and
\* returns the run.
C6_LogCvRunCalls ==
    (Over("log_cv_run") /\ NoFailure) =>
        /\ outcome = Returned(<<fr.self>>)
        /\ \A p \in Positions : calls[p].run = fr.self
        /\ Cardinality({p \in CallsOf("log_param") : calls[p].key = <<"folds">>}) = 1
        /\ Cardinality(CallsOf("log_param")) = 1 + Len(fr.g.param_grid)
        /\ \A j \in 1..Len(fr.g.param_grid) :
              Cardinality({p \in CallsOf("log_param") :
                  /\ calls[p].key = fr.g.param_grid[j]
                  /\ calls[p].val = CvResult(<<"param">> \o fr.g.param_grid[j],
                                             fr.run_index)}) = 1
        /\ Cardinality(CallsOf("log_metric")) = 2 * Cardinality(MeanTestKeys(fr.g))
        /\ \A k \in MeanTestKeys(fr.g) :
              /\ Cardinality({p \in CallsOf("log_metric") :
                     calls[p].key = k /\ calls[p].val = CvResult(k, fr.run_index)}) = 1
              /\ Cardinality({p \in CallsOf("log_metric") :
                     /\ calls[p].key = MatchingStd(k)
                     /\ calls[p].val = CvResult(MatchingStd(k), fr.run_index)}) = 1
        /\ Cardinality(CallsOf("set_tag")) = Len(fr.tags)

\* C8: in log_cross_validation, while no client call has failed: the model
\* and the results matrix are logged on the calling run before any child is
\* created; every log_param / log_metric / set_tag goes to a child that is
\* created and not yet terminated; a child is terminated exactly once before
\* the next one is created; at most one child is open; no child is open when
\* the call returns; the calling run is never terminated.
C8_CreateLogEnd ==
    (fr.op = "log_cross_validation" /\ NoFailure) =>
        /\ \A p \in CallsOf("create_run") :
              /\ \E q \in CallsOf("log_artifacts") : q < p /\ calls[q].run = fr.self
              /\ \E q \in CallsOf("log_artifact") : q < p /\ calls[q].run = fr.self
        /\ \A p \in CallsOf("log_param") \cup CallsOf("log_metric") \cup CallsOf("set_tag") :
              /\ \E q \in CallsOf("create_run") : q < p /\ calls[q].run = calls[p].run
              /\ EndsBefore(calls[p].run, p) = {}
        /\ \A p, q \in CallsOf("create_run") :
              p < q => Cardinality(EndsBefore(calls[p].run, q)) = 1
        /\ Cardinality({p \in CallsOf("create_run") :
                           EndsBefore(calls[p].run, Len(calls) + 1) = {}}) <= 1
        /\ (pc = "idle" /\ outcome.status = "returned") =>
              \A p \in CallsOf("create_run") :
                  /\ Cardinality(EndsBefore(calls[p].run, Len(calls) + 1)) = 1
                  /\ runs[calls[p].run].ended = 1
        /\ \A p \in CallsOf("set_terminated") : calls[p].run # fr.self

\* a call that logged every candidate of a sweep returned, no client call failed
C8_Witness ==
    /\ Over("log_cross_validation")
    /\ outcome.status = "returned"
    /\ NoFailure
    /\ ~fr.log_only_best
    /\ Len(Created) >= 2
    /\ Len(fr.tags) > 0

\* a client call that failed
Failed(p) == p \in ClientPositions /\ calls[p].res # "ok"

\* the legacy error of the metadata step, which log_model catches
SwallowedFailure(p) ==
    calls[p].fn = "_record_logged_model" /\ calls[p].res = MlflowException

\* what a failure at position p leaves behind
PropagatesFrom(p) ==
    /\ p = Len(calls)
    /\ pc = "idle"
    /\ outcome = Raised(calls[p].res)
    /\ \A q \in CallsOf("create_run") :
          calls[q].res = "ok" =>
              /\ calls[q].run \in RunIds
              /\ runs[calls[q].run].tags = calls[q].tags
              /\ runs[calls[q].run].ended =
                     Cardinality(EndsBefore(calls[q].run, Len(calls) + 1))
    /\ Len(Created) <= fr.i
    /\ (calls[p].fn \in {"log_param", "log_metric", "set_tag", "set_terminated"}) =>
          /\ calls[p].run = fr.child
          /\ runs[fr.child].ended = 0
          /\ \A c \in RunIds : (c # fr.child /\ handles[c].parent = Some(fr.self)
                                /\ \E q \in CallsOf("create_run") : calls[q].run = c)
                               => runs[c].ended = 1

\* C9 as stated: a client failure at any step of log_cross_validation
\* propagates: no further client call, nothing rolled back, no later child.
C9_AnyFailurePropagates ==
    fr.op = "log_cross_validation" =>
        \A p \in Positions : Failed(p) => PropagatesFrom(p)

\* C9 amended: the same for every client failure but the legacy error of the
\* metadata step inside log_model, after which the call goes on.
C9_FailurePropagates ==
    fr.op = "log_cross_validation" =>
        \A p \in Positions : (Failed(p) /\ ~SwallowedFailure(p)) => PropagatesFrom(p)

\* the call failed while logging into its second child: the first child is
\* created and ended, the second is created and left open
C9_Witness ==
    /\ Over("log_cross_validation")
    /\ outcome.status = "raised"
    /\ Len(Created) = 2
    /\ calls[Len(calls)].fn = "log_metric"
    /\ Failed(Len(calls))
    /\ runs[fr.child].ended = 0

\* C10: every child run of log_cross_validation is named str(best_index_),
\* whichever candidate is logged into it: the children of one call share
\* one name, and only the child of candidate best_index_ is named after its
\* own candidate index.
C10_ChildNamedAfterBest ==
    fr.op = "log_cross_validation" =>
        LET cands == candidates(fr.g, fr.log_only_best)
        IN \A p \in 1..Len(Created) :
              /\ MLFLOW_RUN_NAME \in DOMAIN Created[p].tags
              /\ Created[p].tags[MLFLOW_RUN_NAME] = Str(fr.g.best_index_)
              /\ Created[p].tags[MLFLOW_RUN_NAME] = Created[1].tags[MLFLOW_RUN_NAME]
              /\ (Created[p].tags[MLFLOW_RUN_NAME] = Str(cands[p]))
                     <=> (cands[p] = fr.g.best_index_)

\* every candidate was logged and the children of the candidates other than
\* the best one carry the best one's index as their name
C10_Witness ==
    /\ Over("log_cross_validation")
    /\ outcome.status = "returned"
    /\ ~fr.log_only_best
    /\ Len(Created) >= 2
    /\ \E p \in 1..Len(Created) :
          /\ candidates(fr.g, fr.log_only_best)[p] # fr.g.best_index_
          /\ Created[p].tags[MLFLOW_RUN_NAME] = Str(fr.g.best_index_)

====
